---- MODULE Spec2Model ----
(***************************************************************************)
(* A model of the dual-stream (RGB + depth) face anti-spoofing network of  *)
(* model/rgbd_model.py and model/cd_resnet.py, of the evaluation script    *)
(* test.py and of the loss of util/loss.py.                                *)
(*                                                                         *)
(* Tensors are records [shape, data].  shape is the tensor's size as the   *)
(* framework computes it, layer by layer.  data keeps, for every sample of *)
(* the batch, one value per channel of an image (the image is spatially    *)
(* constant) and one value per block of features (960 per backbone).       *)
(* Probabilities and features in [0,1] are levels 0..2*Grid, the level l   *)
(* standing for l/(2*Grid), so that 0.5 is the level Grid exactly.         *)
(***************************************************************************)
EXTENDS Integers, Sequences, FiniteSets, TLC

\* ---------------------------------------------------------------- bounds
MaxBatch == 2       \* samples in one batch: 1..MaxBatch
MaxSamples == 2     \* samples in the validation set: 1..MaxSamples
Grid == 2           \* resolution of probabilities: levels 0..2*Grid

\* ------------------------------------------------- documented input sizes
RgbDocSize == 224   \* RGB_net.forward docstring: (B,3,224,224)
DepthDocSize == 128 \* Depth_net.forward docstring: (B,1,128,128)

Sizes == {RgbDocSize, DepthDocSize}

Min2(a, b) == IF a < b THEN a ELSE b
Max2(a, b) == IF a > b THEN a ELSE b

RECURSIVE SumSeq(_)
SumSeq(s) == IF s = <<>> THEN 0 ELSE Head(s) + SumSeq(Tail(s))

\* the inner product of two sequences of the same length
Dot(w, v) == SumSeq([k \in 1 .. Len(w) |-> w[k] * v[k]])

\* ------------------------------------------------------ framework kernels
\* nn.Conv2d / nn.MaxPool2d output size along one spatial dimension
ConvOut(h, k, s, p) == (h + 2 * p - k) \div s + 1

\* CD_Conv2d (model/conv.py): the central-difference convolution, a
\* convolution of the kernel size, stride and padding it is built with; the
\* sizes noted in ResNet._forward_impl, (B,64,56,56) -> (B,128,28,28), are
\* these
CD_Conv2d_out(h, k, s, p) == ConvOut(h, k, s, p)

\* nn.Sigmoid on a pre-activation counted in levels around 0: monotone,
\* 0 maps to 0.5 and the ends saturate (as float32 does)
Sigmoid(z) == Max2(0, Min2(2 * Grid, Grid + z))

\* Tensor.squeeze(): every dimension of size 1 is dropped
Squeeze(shape) == SelectSeq(shape, LAMBDA d : d # 1)

\* nn.Linear(n_in, 1) with weight w (one entry per feature block) and a bias
\* counted in halves: the pre-activation, in levels
Linear(fc, row) == Dot(fc.w, row) + fc.b * Grid

\* ------------------------------------------------------------- cd_resnet
\* BasicBlock.forward: the spatial size after a block of the given stride,
\* or -1 when `out += identity` meets two different sizes
BasicBlock(h, stride, downsample) ==
    LET out == CD_Conv2d_out(CD_Conv2d_out(h, 3, stride, 1), 3, 1, 1)
        identity == IF downsample THEN ConvOut(h, 1, stride, 0) ELSE h
    IN  IF out = identity THEN out ELSE -1

\* ResNet._make_layer: two blocks; the first has the stride and, when it
\* changes the size or the channels, the 1x1 downsample
Layer(h, stride, widen) ==
    LET first == BasicBlock(h, stride, stride # 1 \/ widen)
    IN  IF first = -1 THEN -1 ELSE BasicBlock(first, 1, FALSE)

Upsample4 == 4          \* nn.Upsample(size=(4, 4))
FusedChannels == 64 + 128 + 256 + 512

\* ResNet._forward_impl on a tensor x with the first convolution conv1
\* (its weight has one entry per input channel)
ResNet_forward_impl(conv1, x) ==
    LET B  == x.shape[1]
        h0 == ConvOut(CD_Conv2d_out(x.shape[3], 7, 2, 3), 3, 2, 1)
        h1 == Layer(h0, 1, FALSE)
        h2 == Layer(h1, 2, TRUE)
        h3 == Layer(h2, 2, TRUE)
        h4 == Layer(h3, 2, TRUE)
    IN  IF x.shape[2] # Len(conv1)
        THEN [err |-> "RuntimeError:conv1 channels", shape |-> <<>>, data |-> <<>>]
        ELSE IF {Upsample4, h4} # {Upsample4}
        THEN [err |-> "RuntimeError:cat sizes", shape |-> <<>>, data |-> <<>>]
        ELSE [err |-> "none",
              shape |-> <<B, FusedChannels, h4, h4>>,
              data |-> [b \in 1 .. B |-> <<Dot(conv1, x.data[b])>>]]

\* the head shared by RGB_net.forward and Depth_net.forward:
\* gap = sigmoid(gavg_pool(y).squeeze()); prob = classifier(gap)
GapHead(y, fc) ==
    LET B == Len(y.data)
        gapShape == Squeeze(<<y.shape[1], y.shape[2], 1, 1>>)
        gapData == [b \in 1 .. B |-> <<Sigmoid(y.data[b][1])>>]
        gap == [shape |-> gapShape, data |-> gapData]
    IN  IF gapShape[Len(gapShape)] # FusedChannels
        THEN [err |-> "RuntimeError:mat shapes", gap |-> gap, prob |-> gap]
        ELSE [err |-> "none", gap |-> gap,
              prob |-> [shape |-> [k \in 1 .. Len(gapShape) |->
                                     IF k = Len(gapShape) THEN 1 ELSE gapShape[k]],
                        data |-> [b \in 1 .. B |->
                                     <<Sigmoid(Linear(fc, gapData[b]))>>]]]

NetFailed(e) == [err |-> e, gap |-> [shape |-> <<>>, data |-> <<>>],
                 prob |-> [shape |-> <<>>, data |-> <<>>]]

RGB_net_forward(m, x) ==
    LET y == ResNet_forward_impl(m.rgb_conv, x)
    IN  IF y.err # "none" THEN NetFailed(y.err) ELSE GapHead(y, m.rgb_fc)

Depth_net_forward(m, x) ==
    LET y == ResNet_forward_impl(m.d_conv, x)
    IN  IF y.err # "none" THEN NetFailed(y.err) ELSE GapHead(y, m.d_fc)

\* ------------------------------------------------------------ rgbd_model
\* x_d[:, 0:1, :, :]
SliceChannel0(x) ==
    [shape |-> <<x.shape[1], Min2(1, x.shape[2]), x.shape[3], x.shape[4]>>,
     data |-> [b \in 1 .. Len(x.data) |-> SubSeq(x.data[b], 1, 1)]]

\* torch.cat([a, b], dim=1): both need a dimension 1 and the same batch
Cat1(a, b) ==
    IF Len(a.shape) < 2 \/ Len(b.shape) < 2
    THEN [err |-> "IndexError:cat dim", shape |-> <<>>, data |-> <<>>]
    ELSE IF a.shape[1] # b.shape[1]
    THEN [err |-> "RuntimeError:cat sizes", shape |-> <<>>, data |-> <<>>]
    ELSE [err |-> "none",
          shape |-> <<a.shape[1], a.shape[2] + b.shape[2]>>,
          data |-> [k \in 1 .. Len(a.data) |-> a.data[k] \o b.data[k]]]

JointFeatures == 1920   \* nn.Linear(1920, 1)

\* RGBD_model.classifier: Linear(1920, 1) then Sigmoid
Classifier(m, gap) ==
    [shape |-> <<gap.shape[1], 1>>,
     data |-> [b \in 1 .. Len(gap.data) |-> <<Sigmoid(Linear(m.fc, gap.data[b]))>>]]

Failed(e) == [err |-> e, out |-> <<>>]

\* the depth branch reading channel 1 of x_d instead of channel 0
RGBD_forward_channel1(m, x_rgb, x_d) ==
    LET xd  == [shape |-> <<x_d.shape[1], 1, x_d.shape[3], x_d.shape[4]>>,
                data |-> [b \in 1 .. Len(x_d.data) |-> SubSeq(x_d.data[b], 2, 2)]]
        rgb == RGB_net_forward(m, x_rgb)
        d   == Depth_net_forward(m, xd)
        gap == Cat1(rgb.gap, d.gap)
    IN  IF rgb.err # "none" THEN Failed(rgb.err)
        ELSE IF d.err # "none" THEN Failed(d.err)
        ELSE IF gap.err # "none" THEN Failed(gap.err)
        ELSE [err |-> "none",
              out |-> << [shape |-> gap.shape, data |-> gap.data],
                         Classifier(m, gap), rgb.prob, d.prob >>]

\* RGBD_model.forward: the tuple (gap, r, p, q), or the exception raised
RGBD_forward(m, x_rgb, x_d) ==
    LET xd  == SliceChannel0(x_d)
        rgb == RGB_net_forward(m, x_rgb)
        d   == Depth_net_forward(m, xd)
        gap == Cat1(rgb.gap, d.gap)
    IN  IF rgb.err # "none" THEN Failed(rgb.err)
        ELSE IF d.err # "none" THEN Failed(d.err)
        ELSE IF gap.err # "none" THEN Failed(gap.err)
        ELSE IF gap.shape[2] # JointFeatures THEN Failed("RuntimeError:mat shapes")
        ELSE [err |-> "none",
              out |-> << [shape |-> gap.shape, data |-> gap.data],
                         Classifier(m, gap), rgb.prob, d.prob >>]

\* ------------------------------------------------------------ the state
VARIABLES
    pc,         \* position of the script / of the loop body
    cfg,        \* test_cfg: [rgb_size, batch_size]
    dataset,    \* the validation set: a sequence of samples
    loader,     \* test_loader: the batches it will yield, in order
    model,      \* <<>> before torch.load, <<m>> after
    rgb_map, depth_map, label,  \* the batch of the current iteration
    output,     \* what model(rgb_map, depth_map) returned or raised
    pred,       \* the predicted labels
    err,        \* the uncaught exception that ended the script, or "none"
    stdout,     \* the lines printed
    criterion,  \* the Total_loss object: <<>> or <<[lamb]>>
    args,       \* the arguments of Total_loss.forward: <<>> or <<[p, q, r, targets]>>
    loss        \* what Total_loss.forward returned: <<>> or <<[loss_r, loss_pq, loss]>>

evalVars == <<cfg, dataset, loader, model, rgb_map, depth_map, label,
              output, pred, err, stdout>>
lossVars == <<criterion, args, loss>>
vars == <<pc, evalVars, lossVars>>

NoTensor == [shape |-> <<>>, data |-> <<>>]
NoOutput == [err |-> "unset", out |-> <<>>]

RgbImages == {<<1, 0, 0>>, <<0, 0, 1>>}
DImages == {<<0, 0, 0>>, <<0, 1, 1>>, <<1, 0, 0>>}
Samples == [rgb : RgbImages, d : DImages, label : {0, 1}]

\* the parameters a saved model can hold
Models == [rgb_conv : {<<1, 0, -1>>}, d_conv : {<<1>>, <<-1>>},
           rgb_fc : {[w |-> <<1>>, b |-> -1]}, d_fc : {[w |-> <<1>>, b |-> -1]},
           fc : {[w |-> <<1, -1>>, b |-> 0], [w |-> <<1, 1>>, b |-> -2]}]

Configs == [rgb_size : Sizes, batch_size : 1 .. MaxBatch]

SeqsUpTo(S, n) == UNION {[1 .. k -> S] : k \in 1 .. n}

\* the default collate of DataLoader on samples resized to c.rgb_size:
\* (rgb_map [B,3,W,W], depth_map [B,3,W,W], label [B])
CollateRgb(ss, c) == [shape |-> <<Len(ss), 3, c.rgb_size, c.rgb_size>>,
                      data |-> [b \in 1 .. Len(ss) |-> ss[b].rgb]]
CollateDepth(ss, c) == [shape |-> <<Len(ss), 3, c.rgb_size, c.rgb_size>>,
                        data |-> [b \in 1 .. Len(ss) |-> ss[b].d]]
CollateLabel(ss) == [shape |-> <<Len(ss)>>,
                     data |-> [b \in 1 .. Len(ss) |-> <<ss[b].label>>]]

\* DataLoader(batch_size, shuffle=True): the samples in the order perm, cut
\* into batches of batch_size (the last one may be shorter)
Batches(ds, perm, bs) ==
    LET n == Len(ds)
        k == (n + bs - 1) \div bs
    IN  [j \in 1 .. k |->
            [t \in 1 .. Min2(bs, n - (j - 1) * bs) |-> ds[perm[(j - 1) * bs + t]]]]

\* ------------------------------------------------------- test.py, __main__
Init ==
    /\ pc = "preprocessing"
    /\ cfg \in Configs
    /\ dataset \in SeqsUpTo(Samples, MaxSamples)
    /\ loader = <<>>
    /\ model = <<>>
    /\ rgb_map = NoTensor /\ depth_map = NoTensor /\ label = NoTensor
    /\ output = NoOutput
    /\ pred = NoTensor
    /\ err = "none"
    /\ stdout = <<>>
    /\ criterion = <<>> /\ args = <<>> /\ loss = <<>>

\* lines 26-45: the transform, the dataset and the shuffling loader
Preprocess ==
    /\ pc = "preprocessing"
    /\ \E perm \in Permutations(1 .. Len(dataset)) :
          loader' = Batches(dataset, perm, cfg.batch_size)
    /\ pc' = "load"
    /\ UNCHANGED <<cfg, dataset, model, rgb_map, depth_map, label, output,
                   pred, err, stdout,
                   lossVars>>

\* line 47: model = torch.load(save_path).to(device)
LoadModel ==
    /\ pc = "load"
    /\ \E m \in Models : model' = <<m>>
    /\ pc' = "accuracy"
    /\ UNCHANGED <<cfg, dataset, loader, rgb_map, depth_map, label, output,
                   pred, err, stdout,
                   lossVars>>

\* the names test.py binds at module level (lines 1-14 and 17-22)
Globals == {"nan", "os", "NUL", "NaN", "torch", "nn", "DataLoader", "transforms",
            "CASIA_SURF", "read_cfg", "Total_loss", "AvgMeter", "Metric",
            "device", "cfg", "data_cfg", "test_cfg", "root_dir", "save_path"}

\* line 48: acc = Accuracy(): a name that is not bound raises NameError,
\* which nothing catches
NewAccuracy ==
    /\ pc = "accuracy"
    /\ IF "Accuracy" \in Globals
       THEN pc' = "loop" /\ err' = err
       ELSE pc' = "exit" /\ err' = "NameError:Accuracy"
    /\ UNCHANGED <<cfg, dataset, loader, model, rgb_map, depth_map, label,
                   output, pred, stdout,
                   lossVars>>

Next == Preprocess \/ LoadModel \/ NewAccuracy

Spec == Init /\ [][Next]_vars

\* ------------------------------------- test.py, one pass of the loop body
\* torch.where(score > 0.5, 1., 0.) with >= in place of >
Where_geq(score) ==
    [shape |-> score.shape,
     data |-> [b \in 1 .. Len(score.data) |->
                 [k \in 1 .. Len(score.data[b]) |->
                     IF score.data[b][k] >= Grid THEN 1 ELSE 0]]]

\* torch.where(score > 0.5, 1., 0.), elementwise; 0.5 is the level Grid
Where(score) ==
    [shape |-> score.shape,
     data |-> [b \in 1 .. Len(score.data) |->
                 [k \in 1 .. Len(score.data[b]) |->
                     IF score.data[b][k] > Grid THEN 1 ELSE 0]]]

\* the state on entry to the loop body, for any batch a loader can yield
\* and any saved model
InitBody ==
    /\ pc = "body"
    /\ cfg \in Configs
    /\ dataset \in SeqsUpTo(Samples, cfg.batch_size)
    /\ loader = <<dataset>>
    /\ model \in {<<m>> : m \in Models}
    /\ rgb_map = CollateRgb(dataset, cfg)
    /\ depth_map = CollateDepth(dataset, cfg)
    /\ label = CollateLabel(dataset)
    /\ output = NoOutput
    /\ pred = NoTensor
    /\ err = "none"
    /\ stdout = <<>>
    /\ criterion = <<>> /\ args = <<>> /\ loss = <<>>

\* lines 50-51: .to(device); label = label.float().reshape(len(label), 1)
Reshape ==
    /\ pc = "body"
    /\ label' = [shape |-> <<Len(label.data), 1>>, data |-> label.data]
    /\ pc' = "forward"
    /\ UNCHANGED <<cfg, dataset, loader, model, rgb_map, depth_map, output,
                   pred, err, stdout,
                   lossVars>>

\* line 52: output = model(rgb_map, depth_map); an exception ends the script
CallModel ==
    /\ pc = "forward"
    /\ output' = RGBD_forward(model[1], rgb_map, depth_map)
    /\ IF output'.err = "none"
       THEN pc' = "threshold" /\ err' = err
       ELSE pc' = "exit" /\ err' = output'.err
    /\ UNCHANGED <<cfg, dataset, loader, model, rgb_map, depth_map, label,
                   pred, stdout,
                   lossVars>>

\* lines 53-54: score = output[1]; pred = torch.where(score > 0.5, 1., 0.)
Threshold ==
    /\ pc = "threshold"
    /\ pred' = Where(output.out[2])
    /\ pc' = "print"
    /\ UNCHANGED <<cfg, dataset, loader, model, rgb_map, depth_map, label,
                   output, err, stdout,
                   lossVars>>

\* lines 55-58: the rule, then r, pred and label
PrintBatch ==
    /\ pc = "print"
    /\ stdout' = stdout \o << [tag |-> "----", val |-> <<>>],
                              [tag |-> "r", val |-> output.out[2].data],
                              [tag |-> "pred", val |-> pred.data],
                              [tag |-> "label", val |-> label.data] >>
    /\ pc' = "calc_acc"
    /\ UNCHANGED <<cfg, dataset, loader, model, rgb_map, depth_map, label,
                   output, pred, err,
                   lossVars>>

NextBody == Reshape \/ CallModel \/ Threshold \/ PrintBatch

SpecBody == InitBody /\ [][NextBody]_vars

\* ------------------------------------------------------------ util/loss.py
\* Losses are counted in thousandths (Milli).  The probabilities fed to the
\* loss are the levels 1 .. ProbDen-1, the level l standing for l/ProbDen,
\* where LnMilli[k] is ln(k) in thousandths.
LnMilli == <<0, 693, 1099, 1386>>
ProbDen == Len(LnMilli)
ProbLevels == 1 .. ProbDen - 1
\* the joint score of a call: the lowest and the highest level
JointLevels == {1, ProbDen - 1}
Milli == 10 ^ 3

\* -log(l/ProbDen), as func.binary_cross_entropy takes it
NegLog(l) == LnMilli[ProbDen] - LnMilli[l]

\* func.binary_cross_entropy(input, target, reduce=False), per element:
\* -(t*log(x) + (1-t)*log(1-x)) for a target t in {0, 1}
BCE(x, t) == t * NegLog(x) + (1 - t) * NegLog(ProbDen - x)

\* torch.exp(-bce): the level whose -log is bce
ExpNeg(bce) == CHOOSE l \in ProbLevels : NegLog(l) = bce

\* eps = 0.000000001 is below the resolution (as it is below half an ulp of
\* every float32 in [1/ProbDen, 1), where x + eps == x)
eps == Milli \div 1000000000

CMFL_alpha == 1
CMFL_gamma == 2
CMFL_multiplier == 2

RECURSIVE Pow(_, _)
\* x ** n for x in thousandths
Pow(x, n) == IF n = 0 THEN Milli ELSE (x * Pow(x, n - 1)) \div Milli

Mean(s) == SumSeq(s) \div Len(s)

\* CMFLoss.forward with sg=False and binary=False, as Total_loss builds it
CMFLoss_forward(inputs_a, inputs_b, targets) ==
    LET B == Len(targets)
        bce_a == [b \in 1 .. B |-> BCE(inputs_a[b], targets[b])]
        bce_b == [b \in 1 .. B |-> BCE(inputs_b[b], targets[b])]
        pt_a == [b \in 1 .. B |-> ExpNeg(bce_a[b])]
        pt_b == [b \in 1 .. B |-> ExpNeg(bce_b[b])]
        \* ((pt_b + eps) * (multiplier*pt_a*pt_b)) / (pt_a + pt_b + eps)
        wt_a == [b \in 1 .. B |->
                   (Milli * (pt_b[b] + eps) * CMFL_multiplier * pt_a[b] * pt_b[b])
                      \div (ProbDen * ProbDen * (pt_a[b] + pt_b[b] + eps))]
        wt_b == [b \in 1 .. B |->
                   (Milli * (pt_a[b] + eps) * CMFL_multiplier * pt_a[b] * pt_b[b])
                      \div (ProbDen * ProbDen * (pt_a[b] + pt_b[b] + eps))]
        f_loss_a == [b \in 1 .. B |->
                       (CMFL_alpha * Pow(Milli - wt_a[b], CMFL_gamma) * bce_a[b]) \div Milli]
        f_loss_b == [b \in 1 .. B |->
                       (CMFL_alpha * Pow(Milli - wt_b[b], CMFL_gamma) * bce_b[b]) \div Milli]
    IN  (Mean(f_loss_a) + Mean(f_loss_b)) \div 2

\* log(sum(exp(row))) over the class dimension; r has one class (the
\* classifier is Linear(1920, 1)), where it is the entry itself
LogSumExp(row) == row[1]

\* nn.CrossEntropyLoss()(input [B,C], target [B,C] of class probabilities):
\* mean over the batch of -sum_c target[c] * log_softmax(input)[c]
CrossEntropyLoss(input, target) ==
    LET B == Len(input)
        logSoftmax(row) == [c \in 1 .. Len(row) |-> row[c] - LogSumExp(row)]
        perSample == [b \in 1 .. B |->
                        0 - SumSeq([c \in 1 .. Len(input[b]) |->
                                      target[b][c] * logSoftmax(input[b])[c]])]
    IN  Mean(perSample)

\* the level l as the number l/ProbDen, in thousandths
Value(l) == (Milli * l) \div ProbDen

LambDefault == 700      \* lamb=0.7, in thousandths

\* the two weights exchanged: lamb*loss_r + (1-lamb)*loss_pq
Total_loss_forward_swapped(lamb, p, q, r, targets) ==
    LET loss_r == CrossEntropyLoss([b \in 1 .. Len(r) |-> <<Value(r[b])>>],
                                   [b \in 1 .. Len(r) |-> <<targets[b]>>])
        loss_pq == CMFLoss_forward(p, q, targets) + CMFLoss_forward(q, p, targets)
    IN  [loss_r |-> loss_r, loss_pq |-> loss_pq,
         loss |-> lamb * loss_r + (Milli - lamb) * loss_pq]

\* Total_loss.forward; p, q, r are [B,1] probabilities (levels), targets
\* [B,1] in {0, 1}; loss_r and loss_pq in thousandths, loss in millionths
Total_loss_forward(lamb, p, q, r, targets) ==
    LET loss_r == CrossEntropyLoss([b \in 1 .. Len(r) |-> <<Value(r[b])>>],
                                   [b \in 1 .. Len(r) |-> <<targets[b]>>])
        loss_pq == CMFLoss_forward(p, q, targets) + CMFLoss_forward(q, p, targets)
    IN  [loss_r |-> loss_r, loss_pq |-> loss_pq,
         loss |-> (Milli - lamb) * loss_r + lamb * loss_pq]

\* Total_loss.__init__(lamb=0.7): built with the default or with a lamb
Total_loss_init(given) == [lamb |-> IF given = <<>> THEN LambDefault ELSE given[1]]

LossArgs == UNION {[p : [1 .. B -> ProbLevels], q : [1 .. B -> ProbLevels],
                    r : [1 .. B -> JointLevels], targets : [1 .. B -> {0, 1}]]
                   : B \in 1 .. MaxBatch}

\* a Total_loss object and the arguments of one call of its forward
InitLoss ==
    /\ pc = "loss"
    /\ cfg = [rgb_size |-> DepthDocSize, batch_size |-> 1]
    /\ dataset = <<>> /\ loader = <<>> /\ model = <<>>
    /\ rgb_map = NoTensor /\ depth_map = NoTensor /\ label = NoTensor
    /\ output = NoOutput /\ pred = NoTensor /\ err = "none" /\ stdout = <<>>
    /\ \E given \in {<<>>, <<0>>, <<Milli>>} : criterion = <<Total_loss_init(given)>>
    /\ args \in {<<a>> : a \in LossArgs}
    /\ loss = <<>>

\* loss = criterion(p, q, r, targets)
CallLoss ==
    /\ pc = "loss"
    /\ loss' = <<Total_loss_forward(criterion[1].lamb, args[1].p, args[1].q,
                                    args[1].r, args[1].targets)>>
    /\ pc' = "loss_done"
    /\ UNCHANGED <<evalVars, criterion, args>>

NextLoss == CallLoss

SpecLoss == InitLoss /\ [][NextLoss]_vars

\* ----------------------------------------------------------------- claims
Returned == output.err = "none"

\* the depth batches that agree with x on channel 0 of every sample
SameChannel0(x) ==
    {[x EXCEPT !.data = dd] : dd \in
        {f \in [1 .. Len(x.data) -> DImages] :
            \A b \in 1 .. Len(x.data) : f[b][1] = x.data[b][1]}}

AllDepth(x) ==
    {[x EXCEPT !.data = dd] : dd \in [1 .. Len(x.data) -> DImages]}

AllRgb(x) ==
    {[x EXCEPT !.data = dd] : dd \in [1 .. Len(x.data) -> RgbImages]}

C2_Rgb224Completes ==
    (pc \notin {"body", "forward"} /\ rgb_map.shape[3] = RgbDocSize)
        => /\ RGB_net_forward(model[1], rgb_map).err = "none"
           /\ err # "RuntimeError:cat sizes"

\* C3: once the model is loaded the script ends only after every batch of
\* the loader was processed once, in order: no exception, one per-batch
\* line for each batch, in loader order, and then the one AVG_ACC line.
C3_SinglePass ==
    (pc = "exit" /\ model # <<>>) =>
        /\ err = "none"
        /\ SelectSeq(stdout, LAMBDA l : l.tag = "Batch")
              = [j \in 1 .. Len(loader) |-> [tag |-> "Batch", val |-> <<j - 1>>]]
        /\ Len(SelectSeq(stdout, LAMBDA l : l.tag = "AVG_ACC")) = 1
        /\ stdout[Len(stdout)].tag = "AVG_ACC"

\* C4: the predicted label of every sample is 1 exactly when the joint score
\* r = output[1] is above 0.5 and 0 otherwise (0.5 itself gives 0), whatever
\* p and q are; pred and the reshaped label both have shape [B,1].
C4_PredFromR ==
    pc \in {"print", "calc_acc"} =>
        LET B == Len(dataset)
            r == output.out[2]
        IN  /\ pred.shape = <<B, 1>>
            /\ label.shape = <<B, 1>>
            /\ \A b \in 1 .. B :
                  /\ Len(pred.data[b]) = 1
                  /\ pred.data[b][1] = 1 <=> r.data[b][1] > Grid
                  /\ pred.data[b][1] = 0 <=> r.data[b][1] <= Grid

\* a sample whose joint score is 0.5 exactly while its RGB score is above
\* 0.5, classified 0; and in the same batch a sample classified 1
C4_Witness ==
    /\ pc = "calc_acc"
    /\ output.out[2].data[1][1] = Grid
    /\ output.out[3].data[1][1] > Grid
    /\ pred.data[1][1] = 0
    /\ pred.data[2][1] = 1

\* C5: Total_loss.forward returns (1-lamb)*loss_r + lamb*(CMFL(p,q,targets)
\* + CMFL(q,p,targets)), loss_r being the cross entropy of r against
\* targets; lamb is 0.7 unless given; with lamb = 0 the result is loss_r and
\* with lamb = 1 it is the sum of the two cross-modal terms.
C5_TotalLoss ==
    loss # <<>> =>
        LET a == args[1]
            lamb == criterion[1].lamb
            cel == CrossEntropyLoss([b \in 1 .. Len(a.r) |-> <<Value(a.r[b])>>],
                                    [b \in 1 .. Len(a.r) |-> <<a.targets[b]>>])
            cmfl == CMFLoss_forward(a.p, a.q, a.targets)
                       + CMFLoss_forward(a.q, a.p, a.targets)
        IN  /\ lamb \in {0, LambDefault, Milli}
            /\ loss[1].loss_r = cel
            /\ loss[1].loss_pq = cmfl
            /\ loss[1].loss = (Milli - lamb) * cel + lamb * cmfl
            /\ lamb = 0 => loss[1].loss = Milli * loss[1].loss_r
            /\ lamb = Milli => loss[1].loss = Milli * loss[1].loss_pq

\* forward has returned a positive loss for lamb = 1 on a batch of two
\* samples with different targets where the branches disagree
C5_Witness ==
    /\ loss # <<>>
    /\ criterion[1].lamb = Milli
    /\ Len(args[1].targets) = 2
    /\ args[1].targets[1] # args[1].targets[2]
    /\ args[1].p[1] # args[1].q[1]
    /\ loss[1].loss > 0

\* r agrees with targets when every sample's r is on its target's side of 0.5
Agrees(r, targets) ==
    \A b \in 1 .. Len(r) : IF targets[b] = 1 THEN 2 * r[b] > ProbDen
                                             ELSE 2 * r[b] < ProbDen
Disagrees(r, targets) ==
    \A b \in 1 .. Len(r) : IF targets[b] = 1 THEN 2 * r[b] < ProbDen
                                             ELSE 2 * r[b] > ProbDen

\* C6: with lamb < 1, moving r from agreeing with targets to disagreeing
\* with them, p and q and targets unchanged, strictly increases the loss.
C6_JointBranchPenalised ==
    (loss # <<>> /\ criterion[1].lamb < Milli
                 /\ Agrees(args[1].r, args[1].targets)) =>
        \A r2 \in [1 .. Len(args[1].r) -> JointLevels] :
            Disagrees(r2, args[1].targets) =>
                Total_loss_forward(criterion[1].lamb, args[1].p, args[1].q, r2,
                                   args[1].targets).loss > loss[1].loss

====
